---- MODULE Spec2Model ----
(***************************************************************************)
(* typecast-ai: the local JSON repair pipeline (src/utils/repair.ts) and   *)
(* the self-healing retry loop of TypeCast.cast (src/core).                *)
(*                                                                         *)
(* A text is a sequence of one-character strings; a fixed piece of a       *)
(* template literal is kept as one element of the sequence.                *)
(***************************************************************************)
EXTENDS Integers, Sequences, FiniteSets, TLC

\* ------------------------------------------------------------------------
\* Bounds of the model
\* ------------------------------------------------------------------------
MaxRetriesBound == 2

MaxRetriesConc == 2

\* ------------------------------------------------------------------------
\* Characters and text helpers (String.prototype.trim / indexOf / slice)
\* ------------------------------------------------------------------------
NL == "\n"

QUOTE == "\""

BACKSLASH == "\\"

\* the backquote character (the TLA+ lexer does not take it inside a string)
BACKTICK == "BACKTICK"

WhiteSpace == {" ", "\n", "\t", "\r"}

Digits == {"0", "1", "2", "3", "4", "5", "6", "7", "8", "9"}

\* s.slice(from0, to0) with 0-based, end-exclusive indices
Slice(s, from0, to0) == SubSeq(s, from0 + 1, to0)

RECURSIVE TrimStart(_)
TrimStart(s) ==
    IF s # <<>> /\ Head(s) \in WhiteSpace THEN TrimStart(Tail(s)) ELSE s

RECURSIVE TrimEnd(_)
TrimEnd(s) ==
    IF s # <<>> /\ s[Len(s)] \in WhiteSpace
    THEN TrimEnd(SubSeq(s, 1, Len(s) - 1))
    ELSE s

Trim(s) == TrimEnd(TrimStart(s))

\* does pat occur in s at 1-based position i
MatchAt(s, i, pat) ==
    /\ i >= 1
    /\ i + Len(pat) - 1 <= Len(s)
    /\ \A k \in 1..Len(pat) : s[i + k - 1] = pat[k]

\* s.indexOf(pat): 0-based index of the first occurrence, or -1
IndexOf(s, pat) ==
    LET hits == {i \in 1..Len(s) : MatchAt(s, i, pat)}
    IN  IF hits = {} THEN -1
        ELSE (CHOOSE i \in hits : \A j \in hits : i <= j) - 1

\* s.includes(pat)
Contains(s, pat) == \E i \in 1..(Len(s) + 1) : MatchAt(s, i, pat)

\* number of whitespace characters of s starting at 1-based position i
RECURSIVE WsRun(_, _)
WsRun(s, i) ==
    IF i <= Len(s) /\ s[i] \in WhiteSpace THEN 1 + WsRun(s, i + 1) ELSE 0

FENCE == <<BACKTICK, BACKTICK, BACKTICK>>

\* ------------------------------------------------------------------------
\* src/utils/repair.ts
\* ------------------------------------------------------------------------

\* mutant of CODE_FENCE: no i flag, the tag is matched in lower case only
CODE_FENCE_CaseSensitive(s) ==
    IF ~MatchAt(s, 1, FENCE) THEN -1
    ELSE IF MatchAt(s, 4, <<"j", "s", "o", "n">>) THEN 7 + WsRun(s, 8)
    ELSE 3 + WsRun(s, 4)

\* length of the match of /^FENCE(?:json|JSON)?\s*\n?/i at the start of s,
\* or -1 when s does not start with a fence marker
CODE_FENCE(s) ==
    IF ~MatchAt(s, 1, FENCE) THEN -1
    ELSE LET tag == /\ Len(s) >= 7
                    /\ s[4] \in {"j", "J"} /\ s[5] \in {"s", "S"}
                    /\ s[6] \in {"o", "O"} /\ s[7] \in {"n", "N"}
             afterTag == IF tag THEN 7 ELSE 3
         IN  afterTag + WsRun(s, afterTag + 1)

\* length of the match of /\nFENCE\s*$/ in s, or -1 when there is none
ClosingFence(s) ==
    LET hits == {p \in 1..Len(s) :
                    /\ MatchAt(s, p, <<NL>> \o FENCE)
                    /\ p + 4 + WsRun(s, p + 4) = Len(s) + 1}
    IN  IF hits = {} THEN -1
        ELSE Len(s) - (CHOOSE p \in hits : \A q \in hits : p <= q) + 1

stripMarkdownCodeBlocks(raw) ==
    LET s0 == Trim(raw)
        open == CODE_FENCE(s0)
    IN  IF open = -1 THEN Trim(s0)
        ELSE LET s1 == Slice(s0, open, Len(s0))
                 closing == ClosingFence(s1)
                 endIdx == IndexOf(s1, FENCE)
             IN  IF closing # -1 THEN Trim(Slice(s1, 0, Len(s1) - closing))
                 ELSE IF endIdx # -1 THEN Trim(Slice(s1, 0, endIdx))
                 ELSE Trim(s1)

\* mutant of ReplaceTrailingComma: every comma is removed
RECURSIVE ReplaceEveryComma(_, _, _)
ReplaceEveryComma(s, i, closer) ==
    IF i > Len(s) THEN <<>>
    ELSE IF s[i] = "," THEN ReplaceEveryComma(s, i + 1, closer)
    ELSE <<s[i]>> \o ReplaceEveryComma(s, i + 1, closer)

\* mutant of ReplaceTrailingComma: the whitespace after the comma goes too
RECURSIVE ReplaceCommaAndSpace(_, _, _)
ReplaceCommaAndSpace(s, i, closer) ==
    IF i > Len(s) THEN <<>>
    ELSE LET j == i + 1 + WsRun(s, i + 1)
         IN  IF s[i] = "," /\ j <= Len(s) /\ s[j] = closer
             THEN <<closer>> \o ReplaceCommaAndSpace(s, j + 1, closer)
             ELSE <<s[i]>> \o ReplaceCommaAndSpace(s, i + 1, closer)

\* mutant of ReplaceTrailingComma: no g flag, only the first match is replaced
RECURSIVE ReplaceFirstTrailingComma(_, _, _)
ReplaceFirstTrailingComma(s, i, closer) ==
    IF i > Len(s) THEN <<>>
    ELSE LET j == i + 1 + WsRun(s, i + 1)
         IN  IF s[i] = "," /\ j <= Len(s) /\ s[j] = closer
             THEN SubSeq(s, i + 1, Len(s))
             ELSE <<s[i]>> \o ReplaceFirstTrailingComma(s, i + 1, closer)

\* s.replace(/,(\s*)<closer>/g, "$1<closer>"), scanning from 1-based i
RECURSIVE ReplaceTrailingComma(_, _, _)
ReplaceTrailingComma(s, i, closer) ==
    IF i > Len(s) THEN <<>>
    ELSE LET j == i + 1 + WsRun(s, i + 1)
         IN  IF s[i] = "," /\ j <= Len(s) /\ s[j] = closer
             THEN SubSeq(s, i + 1, j) \o ReplaceTrailingComma(s, j + 1, closer)
             ELSE <<s[i]>> \o ReplaceTrailingComma(s, i + 1, closer)

fixTrailingCommas(raw) ==
    ReplaceTrailingComma(ReplaceTrailingComma(raw, 1, "]"), 1, "}")

\* the while loop of extractJsonChunk; i and start are 0-based as in the code
RECURSIVE ScanChunk(_, _, _, _, _, _, _, _, _)
ScanChunk(trimmed, start, openChar, closeChar, i, depth, inString, escape, quoteChar) ==
    IF ~(i < Len(trimmed)) THEN Slice(trimmed, start, Len(trimmed))
    ELSE LET c == trimmed[i + 1]
         IN  IF escape
             THEN ScanChunk(trimmed, start, openChar, closeChar, i + 1, depth,
                            inString, FALSE, quoteChar)
             ELSE IF c = BACKSLASH /\ inString
             THEN ScanChunk(trimmed, start, openChar, closeChar, i + 1, depth,
                            inString, TRUE, quoteChar)
             ELSE IF inString
             THEN ScanChunk(trimmed, start, openChar, closeChar, i + 1, depth,
                            (c # quoteChar), escape, quoteChar)
             ELSE IF c = QUOTE \/ c = "'"
             THEN ScanChunk(trimmed, start, openChar, closeChar, i + 1, depth,
                            TRUE, escape, c)
             ELSE IF c = openChar
             THEN ScanChunk(trimmed, start, openChar, closeChar, i + 1, depth + 1,
                            inString, escape, quoteChar)
             ELSE IF c = closeChar
             THEN IF depth - 1 = 0
                  THEN Slice(trimmed, start, i + 1)
                  ELSE ScanChunk(trimmed, start, openChar, closeChar, i + 1,
                                 depth - 1, inString, escape, quoteChar)
             ELSE ScanChunk(trimmed, start, openChar, closeChar, i + 1, depth,
                            inString, escape, quoteChar)

extractJsonChunk(raw) ==
    LET trimmed == Trim(raw)
        startObj == IndexOf(trimmed, <<"{">>)
        startArr == IndexOf(trimmed, <<"[">>)
    IN  IF startObj = -1 /\ startArr = -1 THEN trimmed
        ELSE IF startArr = -1 \/ (startObj # -1 /\ startObj < startArr)
        THEN ScanChunk(trimmed, startObj, "{", "}", startObj, 0, FALSE, FALSE, "")
        ELSE ScanChunk(trimmed, startArr, "[", "]", startArr, 0, FALSE, FALSE, "")

repairJson(raw) ==
    Trim(fixTrailingCommas(extractJsonChunk(stripMarkdownCodeBlocks(raw))))

\* ------------------------------------------------------------------------
\* JSON.parse (the decoder cast calls), over the modelled alphabet.
\* A decoded value is [type, text, members]: members lists the entries of an
\* object or array as [key, type, text]; a nested container is kept as its
\* source text.  Numbers are read without exponent notation.
\* ------------------------------------------------------------------------
Fail(pos) ==
    [ok |-> FALSE, next |-> 0, type |-> "", text |-> <<>>, members |-> <<>>,
     pos |-> pos]

Ok(next, type, text, members) ==
    [ok |-> TRUE, next |-> next, type |-> type, text |-> text,
     members |-> members, pos |-> 0]

RECURSIVE DigitRun(_, _)
DigitRun(s, i) ==
    IF i <= Len(s) /\ s[i] \in Digits THEN 1 + DigitRun(s, i + 1) ELSE 0

Unescape(c) ==
    CASE c = "n" -> "\n"
      [] c = "t" -> "\t"
      [] c = "r" -> "\r"
      [] c = "f" -> "\f"
      [] c = "b" -> "BACKSPACE"
      [] OTHER -> c

\* the characters of a string literal after its opening quote, from j
RECURSIVE ScanString(_, _, _)
ScanString(s, j, acc) ==
    IF j > Len(s) THEN Fail(j)
    ELSE IF s[j] = QUOTE THEN Ok(j + 1, "string", acc, <<>>)
    ELSE IF s[j] \in {"\n", "\t", "\r"} THEN Fail(j)
    ELSE IF s[j] = BACKSLASH
    THEN IF j + 1 > Len(s) THEN Fail(j + 1)
         ELSE IF s[j + 1] \in {QUOTE, BACKSLASH, "/", "b", "f", "n", "r", "t"}
         THEN ScanString(s, j + 2, Append(acc, Unescape(s[j + 1])))
         ELSE Fail(j + 1)
    ELSE ScanString(s, j + 1, Append(acc, s[j]))

\* the fraction of a number whose integer part ends before b
NumberFraction(s, i, b) ==
    IF b <= Len(s) /\ s[b] = "."
    THEN IF DigitRun(s, b + 1) = 0 THEN Fail(b + 1)
         ELSE Ok(b + 1 + DigitRun(s, b + 1), "number",
                 SubSeq(s, i, b + DigitRun(s, b + 1)), <<>>)
    ELSE Ok(b, "number", SubSeq(s, i, b - 1), <<>>)

\* the integer part of a number whose digits start at a
NumberInteger(s, i, a) ==
    IF DigitRun(s, a) = 0 THEN Fail(a)
    ELSE NumberFraction(s, i, a + (IF s[a] = "0" THEN 1 ELSE DigitRun(s, a)))

ParseNumber(s, i) == NumberInteger(s, i, IF s[i] = "-" THEN i + 1 ELSE i)

RECURSIVE ParseValue(_, _)
RECURSIVE ParseMembers(_, _, _)
RECURSIVE ParseElements(_, _, _)

\* an object or array that starts at i, given the result r for its entries
Container(s, i, type, r) ==
    IF r.ok THEN Ok(r.next, type, SubSeq(s, i, r.next - 1), r.members) ELSE r

\* the entries of the object whose first token after the brace is at j
ObjectFrom(s, j) ==
    IF j <= Len(s) /\ s[j] = "}" THEN Ok(j + 1, "object", <<>>, <<>>)
    ELSE ParseMembers(s, j, <<>>)

\* the entries of the array whose first token after the bracket is at j
ArrayFrom(s, j) ==
    IF j <= Len(s) /\ s[j] = "]" THEN Ok(j + 1, "array", <<>>, <<>>)
    ELSE ParseElements(s, j, <<>>)

ParseValue(s, i) ==
    IF i > Len(s) THEN Fail(i)
    ELSE IF s[i] = "{"
    THEN Container(s, i, "object", ObjectFrom(s, i + 1 + WsRun(s, i + 1)))
    ELSE IF s[i] = "["
    THEN Container(s, i, "array", ArrayFrom(s, i + 1 + WsRun(s, i + 1)))
    ELSE IF s[i] = QUOTE THEN ScanString(s, i + 1, <<>>)
    ELSE IF s[i] \in Digits \cup {"-"} THEN ParseNumber(s, i)
    ELSE IF MatchAt(s, i, <<"t", "r", "u", "e">>)
    THEN Ok(i + 4, "boolean", SubSeq(s, i, i + 3), <<>>)
    ELSE IF MatchAt(s, i, <<"f", "a", "l", "s", "e">>)
    THEN Ok(i + 5, "boolean", SubSeq(s, i, i + 4), <<>>)
    ELSE IF MatchAt(s, i, <<"n", "u", "l", "l">>)
    THEN Ok(i + 4, "null", SubSeq(s, i, i + 3), <<>>)
    ELSE Fail(i)

\* after an entry: a comma and the next entry, or the closer, at e
MembersSeparator(s, acc, e) ==
    IF e > Len(s) THEN Fail(e)
    ELSE IF s[e] = "," THEN ParseMembers(s, e + 1 + WsRun(s, e + 1), acc)
    ELSE IF s[e] = "}" THEN Ok(e + 1, "object", <<>>, acc)
    ELSE Fail(e)

\* after the value v of the entry with key k
MembersValue(s, acc, k, v) ==
    IF ~v.ok THEN v
    ELSE MembersSeparator(s, Append(acc, [key |-> k.text, type |-> v.type,
                                          text |-> v.text]),
                          v.next + WsRun(s, v.next))

\* after the key k: the colon, at c, and the value
MembersColon(s, acc, k, c) ==
    IF c > Len(s) \/ s[c] # ":" THEN Fail(c)
    ELSE MembersValue(s, acc, k, ParseValue(s, c + 1 + WsRun(s, c + 1)))

MembersKey(s, acc, k) ==
    IF ~k.ok THEN k ELSE MembersColon(s, acc, k, k.next + WsRun(s, k.next))

\* "key": value entries of an object, from the position j of the next key
ParseMembers(s, j, acc) ==
    IF j > Len(s) \/ s[j] # QUOTE THEN Fail(j)
    ELSE MembersKey(s, acc, ScanString(s, j + 1, <<>>))

ElementsSeparator(s, acc, e) ==
    IF e > Len(s) THEN Fail(e)
    ELSE IF s[e] = "," THEN ParseElements(s, e + 1 + WsRun(s, e + 1), acc)
    ELSE IF s[e] = "]" THEN Ok(e + 1, "array", <<>>, acc)
    ELSE Fail(e)

ElementsValue(s, acc, v) ==
    IF ~v.ok THEN v
    ELSE ElementsSeparator(s, Append(acc, [key |-> <<>>, type |-> v.type,
                                           text |-> v.text]),
                           v.next + WsRun(s, v.next))

\* the elements of an array, from the position j of the next element
ParseElements(s, j, acc) == ElementsValue(s, acc, ParseValue(s, j))

\* ------------------------------------------------------------------------
\* Errors: [class, message, issues]
\* ------------------------------------------------------------------------
NoError == [class |-> "none", message |-> <<>>, issues |-> <<>>]

SyntaxError(text, pos) ==
    [class |-> "SyntaxError",
     message |-> IF pos > Len(text)
                 THEN <<"Unexpected end of JSON input">>
                 ELSE <<"Unexpected token ", text[pos],
                        " in JSON at position ", ToString(pos - 1)>>,
     issues |-> <<>>]

NoValue == [type |-> "", text |-> <<>>, members |-> <<>>]

\* the end of JSON.parse: only whitespace may follow the value v, checked at j
ParseEnd(text, v, j) ==
    IF j <= Len(text)
    THEN [ok |-> FALSE, value |-> NoValue, error |-> SyntaxError(text, j)]
    ELSE [ok |-> TRUE,
          value |-> [type |-> v.type, text |-> v.text, members |-> v.members],
          error |-> NoError]

ParseTop(text, v) ==
    IF ~v.ok
    THEN [ok |-> FALSE, value |-> NoValue, error |-> SyntaxError(text, v.pos)]
    ELSE ParseEnd(text, v, v.next + WsRun(text, v.next))

\* JSON.parse(raw): a decoded value, or the SyntaxError it throws
JSONParse(text) == ParseTop(text, ParseValue(text, 1 + WsRun(text, 1)))

\* ------------------------------------------------------------------------
\* The schema handed to cast: userSchema of the unit tests,
\* z.object({ name: z.string(), age: z.number().int().min(0) })
\* ------------------------------------------------------------------------
Issue(code, path, message) == [code |-> code, path |-> path, message |-> message]

HasKey(members, key) == \E k \in 1..Len(members) : members[k].key = key

\* the entry JSON.parse keeps for a key: the last one in the text
Lookup(members, key) ==
    members[CHOOSE k \in 1..Len(members) :
                /\ members[k].key = key
                /\ \A j \in (k + 1)..Len(members) : members[j].key # key]

IsInteger(num) ==
    LET dot == IndexOf(num, <<".">>)
    IN  dot = -1 \/ \A k \in (dot + 2)..Len(num) : num[k] = "0"

IsNegative(num) ==
    /\ num # <<>> /\ num[1] = "-"
    /\ \E k \in 1..Len(num) : num[k] \in Digits \ {"0"}

\* z.string() on the entry m
StringIssues(path, m) ==
    IF m.type # "string"
    THEN <<Issue("invalid_type", path, <<"Expected string, received ", m.type>>)>>
    ELSE <<>>

NameIssues(members) ==
    IF ~HasKey(members, <<"n", "a", "m", "e">>)
    THEN <<Issue("invalid_type", <<"name">>, <<"Required">>)>>
    ELSE StringIssues(<<"name">>, Lookup(members, <<"n", "a", "m", "e">>))

\* z.number().int().min(0) on the entry m
NumberIssues(path, m) ==
    IF m.type # "number"
    THEN <<Issue("invalid_type", path, <<"Expected number, received ", m.type>>)>>
    ELSE (IF IsInteger(m.text) THEN <<>>
          ELSE <<Issue("invalid_type", path,
                       <<"Expected integer, received float">>)>>)
         \o (IF ~IsNegative(m.text) THEN <<>>
             ELSE <<Issue("too_small", path,
                          <<"Number must be greater than or equal to 0">>)>>)

AgeIssues(members) ==
    IF ~HasKey(members, <<"a", "g", "e">>)
    THEN <<Issue("invalid_type", <<"age">>, <<"Required">>)>>
    ELSE NumberIssues(<<"age">>, Lookup(members, <<"a", "g", "e">>))

NoResult == [name |-> <<>>, age |-> <<>>]

\* the result of z.object on an object with the given issues
ObjectResult(members, issues) ==
    IF issues # <<>>
    THEN [ok |-> FALSE, value |-> NoResult, issues |-> issues]
    ELSE [ok |-> TRUE,
          value |-> [name |-> Lookup(members, <<"n", "a", "m", "e">>).text,
                     age |-> Lookup(members, <<"a", "g", "e">>).text],
          issues |-> <<>>]

\* schema.parse(parsed): the typed value (unknown keys stripped) or the issues
schemaParse(parsed) ==
    IF parsed.type # "object"
    THEN [ok |-> FALSE, value |-> NoResult,
          issues |-> <<Issue("invalid_type", <<>>,
                             <<"Expected object, received ", parsed.type>>)>>]
    ELSE ObjectResult(parsed.members,
                      NameIssues(parsed.members) \o AgeIssues(parsed.members))

\* JSON.stringify(error.issues, null, 2)
RECURSIVE StringifyIssues(_)
StringifyIssues(issues) ==
    IF issues = <<>> THEN <<>>
    ELSE <<"{ code: ", Head(issues).code, ", path: ">> \o Head(issues).path
         \o <<", message: ">> \o Head(issues).message \o <<" }">>
         \o StringifyIssues(Tail(issues))

ZodError(issues) ==
    [class |-> "ZodError", message |-> StringifyIssues(issues), issues |-> issues]

\* ------------------------------------------------------------------------
\* src/core: formatParseError and TypeCast.cast
\* ------------------------------------------------------------------------
\* mutant of formatParseError: the message alone, whatever the error is
formatParseErrorMessageOnly(error) == error.message

formatParseError(error) ==
    IF error.class = "ZodError"
    THEN <<"Zod validation failed:\n">> \o StringifyIssues(error.issues)
    ELSE IF error.class = "SyntaxError"
    THEN <<"Invalid JSON: ">> \o error.message
    ELSE error.message

\* mutant of CorrectivePrompt: the block is put in front of the conversation
CorrectivePromptInFront(conv, raw, e) ==
    <<"\n\n---\nYour previous response:\n">> \o raw
        \o <<"\n\n---\nError: ">> \o formatParseError(e)
        \o <<"\n\nFix the JSON according to the schema and return only the corrected JSON.">>
        \o conv

\* mutant of CorrectivePrompt: the previous response is left out
CorrectivePromptNoRaw(conv, raw, e) ==
    conv \o <<"\n\n---\nYour previous response:\n">>
         \o <<"\n\n---\nError: ">> \o formatParseError(e)
         \o <<"\n\nFix the JSON according to the schema and return only the corrected JSON.">>

\* the template literal that extends the conversation before a retry
CorrectivePrompt(conv, raw, e) ==
    conv \o <<"\n\n---\nYour previous response:\n">> \o raw
         \o <<"\n\n---\nError: ">> \o formatParseError(e)
         \o <<"\n\nFix the JSON according to the schema and return only the corrected JSON.">>

\* the default of the destructuring const { maxRetries = 2 } = options
DefaultMaxRetries == 2

\* const { maxRetries = 2 } = options, for the arguments a of a call
MaxRetriesOf(a) == IF a.given THEN a.maxRetries ELSE DefaultMaxRetries

\* for (...; attempt <= maxRetries; ...)
LoopCondition(att, maxR) == att <= maxR

\* mutant of NextAttempt: the counter skips a value
NextAttemptSkips(att) == att + 2

\* for (...; ...; attempt++)
NextAttempt(att) == att + 1

\* mutant of ShouldRetry: the last attempt continues too
ShouldRetryAlways(att, maxR) == att <= maxR

\* mutant of ShouldRetry: one retry too few
ShouldRetryOffByOne(att, maxR) == att + 1 < maxR

\* if (attempt < maxRetries) in both catch blocks
ShouldRetry(att, maxR) == att < maxR

\* mutant of AttemptResult: the decoded object is returned without schema.parse
AttemptResultUnchecked(raw) ==
    LET d == JSONParse(raw)
        field(key) == IF HasKey(d.value.members, key)
                      THEN Lookup(d.value.members, key).text ELSE <<>>
    IN  IF ~d.ok
        THEN [kind |-> "syntax", value |-> NoResult, error |-> d.error,
              validated |-> FALSE]
        ELSE [kind |-> "ok",
              value |-> [name |-> field(<<"n", "a", "m", "e">>),
                         age |-> field(<<"a", "g", "e">>)],
              error |-> NoError, validated |-> FALSE]

\* the second try block: return schema.parse(parsed), or its ZodError
Validated(v) ==
    IF ~v.ok
    THEN [kind |-> "validation", value |-> NoResult,
          error |-> ZodError(v.issues), validated |-> TRUE]
    ELSE [kind |-> "ok", value |-> v.value, error |-> NoError,
          validated |-> TRUE]

\* the first try block: parsed = JSON.parse(raw), or its SyntaxError
Decoded(d) ==
    IF ~d.ok
    THEN [kind |-> "syntax", value |-> NoResult, error |-> d.error,
          validated |-> FALSE]
    ELSE Validated(schemaParse(d.value))

\* the two try blocks of one attempt: JSON.parse(raw), then schema.parse(parsed)
AttemptResult(raw) == Decoded(JSONParse(raw))

\* ------------------------------------------------------------------------
\* The environment of cast: callers, prompts, and what the provider answers
\* ------------------------------------------------------------------------
Calls == {1, 2}

PromptA == <<"Return a user.">>

PromptB == <<"Prompt.">>

\* {"name": "Al", "age": 30}
ValidJson ==
    <<"{", QUOTE, "n", "a", "m", "e", QUOTE, ":", " ", QUOTE, "A", "l", QUOTE,
      ",", " ", QUOTE, "a", "g", "e", QUOTE, ":", " ", "3", "0", "}">>

\* {"name": 123, "age": 30}
WrongTypeJson ==
    <<"{", QUOTE, "n", "a", "m", "e", QUOTE, ":", " ", "1", "2", "3",
      ",", " ", QUOTE, "a", "g", "e", QUOTE, ":", " ", "3", "0", "}">>

\* not json
NotJson == <<"n", "o", "t", " ", "j", "s", "o", "n">>

\* the valid object inside a json-tagged markdown fence
FencedJson == FENCE \o <<"j", "s", "o", "n", NL>> \o ValidJson \o <<NL>> \o FENCE

\* {"name": "Al", "age": 30,}
TrailingCommaJson == SubSeq(ValidJson, 1, Len(ValidJson) - 1) \o <<",", "}">>

Responses == {ValidJson, WrongTypeJson, NotJson, FencedJson, TrailingCommaJson}

\* what a failing generateResponse throws
BackendErrors ==
    {[class |-> "Error", message |-> <<"API key invalid">>, issues |-> <<>>]}

Unreachable == [class |-> "Error", message |-> <<"Unreachable">>, issues |-> <<>>]

Pending == [status |-> "pending", value |-> NoResult, error |-> NoError,
            cause |-> NoError]

VARIABLES
    args,          \* per call: the arguments of cast and whether it is invoked
    pc,            \* per call: "idle", "awaiting" (suspended at await), "done"
    maxRetries,    \* per call: const { maxRetries = 2 } = options
    conversation,  \* per call: let conversation
    attempt,       \* per call: the loop counter
    outcome,       \* per call: what the promise of cast settled with
    sent,          \* per call: the prompts the provider was called with
    turns,         \* per call: the finished backend round-trips, in order
    fn,            \* the function of repair.ts that is being run, or "none"
    input,         \* its argument raw
    fpc,           \* the position reached in its body
    work,          \* its let s, and at a return the string it returns
    scan           \* the locals of extractJsonChunk

vars == <<args, pc, maxRetries, conversation, attempt, outcome, sent, turns,
          fn, input, fpc, work, scan>>

castVars == <<args, pc, maxRetries, conversation, attempt, outcome, sent, turns>>

repairVars == <<fn, input, fpc, work, scan>>

\* the locals of extractJsonChunk before its declarations are reached
NoScan ==
    [trimmed |-> <<>>, start |-> -1, openChar |-> "", closeChar |-> "",
     depth |-> 0, i |-> 0, inString |-> FALSE, escape |-> FALSE,
     quoteChar |-> ""]

Turn(raw, r) ==
    [raw |-> raw, kind |-> r.kind, error |-> r.error, validated |-> r.validated]

\* the loop test followed by await this.provider.generateResponse(conversation)
IssueCall(c, conv, att, maxR) ==
    /\ conversation' = [conversation EXCEPT ![c] = conv]
    /\ attempt' = [attempt EXCEPT ![c] = att]
    /\ IF LoopCondition(att, maxR)
       THEN /\ sent' = [sent EXCEPT ![c] = Append(@, conv)]
            /\ pc' = [pc EXCEPT ![c] = "awaiting"]
            /\ outcome' = outcome
       ELSE /\ sent' = sent
            /\ pc' = [pc EXCEPT ![c] = "done"]
            /\ outcome' = [outcome EXCEPT ![c] =
                              [status |-> "threw", value |-> NoResult,
                               error |-> Unreachable, cause |-> NoError]]

\* mutant of Throw: the last failure is neither rethrown nor retried
ThrowNever(c, e) ==
    /\ pc' = [pc EXCEPT ![c] = "retrying"]
    /\ UNCHANGED <<outcome, conversation, attempt, sent>>

\* throw e: the promise of cast rejects with e itself
Throw(c, e) ==
    /\ pc' = [pc EXCEPT ![c] = "done"]
    /\ outcome' = [outcome EXCEPT ![c] =
                      [status |-> "threw", value |-> NoResult, error |-> e,
                       cause |-> NoError]]
    /\ UNCHANGED <<conversation, attempt, sent>>

\* mutant of Return: the value is returned but the provider is called once more
ReturnAfterExtraCall(c, value) ==
    /\ pc' = [pc EXCEPT ![c] = "done"]
    /\ outcome' = [outcome EXCEPT ![c] =
                      [status |-> "returned", value |-> value, error |-> NoError,
                       cause |-> NoError]]
    /\ sent' = [sent EXCEPT ![c] = Append(@, conversation[c])]
    /\ UNCHANGED <<conversation, attempt>>

\* return schema.parse(parsed) as T
Return(c, value) ==
    /\ pc' = [pc EXCEPT ![c] = "done"]
    /\ outcome' = [outcome EXCEPT ![c] =
                      [status |-> "returned", value |-> value, error |-> NoError,
                       cause |-> NoError]]
    /\ UNCHANGED <<conversation, attempt, sent>>

\* mutant of OnFailure: the error of the first failed attempt is rethrown
OnFailureFirst(c, raw, e) ==
    IF ShouldRetry(attempt[c], maxRetries[c])
    THEN IssueCall(c, CorrectivePrompt(conversation[c], raw, e),
                   NextAttempt(attempt[c]), maxRetries[c])
    ELSE Throw(c, IF turns[c] = <<>> THEN e ELSE turns[c][1].error)

\* mutant of OnFailure: the conversation is a field of the TypeCast instance
OnFailureShared(c, raw, e) ==
    IF ShouldRetry(attempt[c], maxRetries[c])
    THEN LET conv == CorrectivePrompt(conversation[c], raw, e)
         IN  /\ conversation' = [d \in Calls |-> conv]
             /\ attempt' = [attempt EXCEPT ![c] = NextAttempt(@)]
             /\ sent' = [sent EXCEPT ![c] = Append(@, conv)]
             /\ pc' = [pc EXCEPT ![c] = "awaiting"]
             /\ outcome' = outcome
    ELSE Throw(c, e)

\* either catch block: extend the conversation and continue, or rethrow
OnFailure(c, raw, e) ==
    IF ShouldRetry(attempt[c], maxRetries[c])
    THEN IssueCall(c, CorrectivePrompt(conversation[c], raw, e),
                   NextAttempt(attempt[c]), maxRetries[c])
    ELSE Throw(c, e)

\* the loop body after the await, given the result r of its two try blocks
Resume(c, raw, r) ==
    /\ turns' = [turns EXCEPT ![c] = Append(@, Turn(raw, r))]
    /\ IF r.kind = "ok" THEN Return(c, r.value) ELSE OnFailure(c, raw, r.error)

\* cast(schema, prompt, options) up to its first await
Cast(c) ==
    /\ args[c].active
    /\ pc[c] = "idle"
    /\ maxRetries' = [maxRetries EXCEPT ![c] = MaxRetriesOf(args[c])]
    /\ IssueCall(c, args[c].prompt, 0, MaxRetriesOf(args[c]))
    /\ UNCHANGED <<args, turns>>
    /\ UNCHANGED repairVars

\* generateResponse resolves with raw: the rest of the loop body, up to the
\* next await or to the end of cast
BackendReturn(c, raw) ==
    /\ pc[c] = "awaiting"
    /\ Resume(c, raw, AttemptResult(raw))
    /\ UNCHANGED <<args, maxRetries>>
    /\ UNCHANGED repairVars

\* mutant of BackendThrow: a provider error is handled like a decode failure
BackendThrowRetried(c, err) ==
    /\ pc[c] = "awaiting"
    /\ turns' = [turns EXCEPT ![c] =
                    Append(@, [raw |-> <<>>, kind |-> "backend", error |-> err,
                               validated |-> FALSE])]
    /\ OnFailure(c, <<>>, err)
    /\ UNCHANGED <<args, maxRetries>>
    /\ UNCHANGED repairVars

\* generateResponse rejects with err: the await rethrows it out of cast
BackendThrow(c, err) ==
    /\ pc[c] = "awaiting"
    /\ turns' = [turns EXCEPT ![c] =
                    Append(@, [raw |-> <<>>, kind |-> "backend", error |-> err,
                               validated |-> FALSE])]
    /\ Throw(c, err)
    /\ UNCHANGED <<args, maxRetries>>
    /\ UNCHANGED repairVars

InitCalls ==
    /\ pc = [c \in Calls |-> "idle"]
    /\ maxRetries = [c \in Calls |-> 0]
    /\ conversation = [c \in Calls |-> <<>>]
    /\ attempt = [c \in Calls |-> 0]
    /\ outcome = [c \in Calls |-> Pending]
    /\ sent = [c \in Calls |-> <<>>]
    /\ turns = [c \in Calls |-> <<>>]

\* no function of repair.ts is run: cast does not call them
NoRepair ==
    /\ fn = "none"
    /\ input = <<>>
    /\ fpc = "idle"
    /\ work = <<>>
    /\ scan = NoScan

\* one cast call, with any prompt and either no maxRetries option or any
\* maxRetries up to the bound
Init ==
    /\ \E p \in {PromptA, PromptB}, g \in BOOLEAN, n \in 0..MaxRetriesBound :
          /\ ~g => n = 0
          /\ args = [c \in Calls |->
                        [prompt |-> p, given |-> g, maxRetries |-> n,
                         active |-> (c = 1)]]
    /\ InitCalls
    /\ NoRepair

\* two cast calls on the same TypeCast instance and provider
InitConc ==
    /\ \E n1 \in 0..MaxRetriesConc, n2 \in 0..MaxRetriesConc :
          args = [c \in Calls |->
                     [prompt |-> IF c = 1 THEN PromptA ELSE PromptB,
                      given |-> TRUE,
                      maxRetries |-> IF c = 1 THEN n1 ELSE n2,
                      active |-> TRUE]]
    /\ InitCalls
    /\ NoRepair

Next ==
    \/ \E c \in Calls : Cast(c)
    \/ \E c \in Calls, raw \in Responses : BackendReturn(c, raw)
    \/ \E c \in Calls, err \in BackendErrors : BackendThrow(c, err)

Spec == Init /\ [][Next]_vars

SpecConc == InitConc /\ [][Next]_vars

\* an invoked cast runs, and every call of generateResponse that is
\* outstanding eventually resolves or rejects
Fairness ==
    \A c \in Calls :
        /\ WF_vars(Cast(c))
        /\ WF_vars(\/ \E raw \in Responses : BackendReturn(c, raw)
                   \/ \E err \in BackendErrors : BackendThrow(c, err))

SpecLive == Init /\ [][Next]_vars /\ Fairness

\* ------------------------------------------------------------------------
\* Properties of the retry loop
\* ------------------------------------------------------------------------
Last(seq) == seq[Len(seq)]

Failed(t) == t.kind \in {"syntax", "validation"}

Started(c) == pc[c] # "idle"

\* C1: with maxRetries = N >= 0 and a provider whose every response fails
\* decoding or validation, a finished cast call has made exactly N + 1 provider
\* calls and ended by throwing; with N = 0 the only prompt sent is the
\* caller's prompt.
C1_ExactlyNPlusOneCalls ==
    \A c \in Calls :
        (/\ pc[c] = "done"
         /\ turns[c] # <<>>
         /\ \A k \in 1..Len(turns[c]) : Failed(turns[c][k]))
        => /\ Len(sent[c]) = MaxRetriesOf(args[c]) + 1
           /\ Len(turns[c]) = MaxRetriesOf(args[c]) + 1
           /\ outcome[c].status = "threw"
           /\ (MaxRetriesOf(args[c]) = 0 => sent[c] = <<args[c].prompt>>)

C1_Witness ==
    \E c \in Calls :
        /\ pc[c] = "done"
        /\ MaxRetriesOf(args[c]) >= 2
        /\ \A k \in 1..Len(turns[c]) : Failed(turns[c][k])
        /\ Len(sent[c]) = MaxRetriesOf(args[c]) + 1

\* C2: when the response of attempt k decodes and validates, cast returns the
\* validated value of that response at once: k <= maxRetries, every earlier
\* attempt failed, exactly k + 1 provider calls were made, and none is made
\* afterwards.
C2_SuccessStopsCalls ==
    \A c \in Calls :
        /\ outcome[c].status = "returned"
           => /\ pc[c] = "done"
              /\ Last(turns[c]).kind = "ok"
              /\ outcome[c].value = AttemptResult(Last(turns[c]).raw).value
              /\ attempt[c] = Len(turns[c]) - 1
              /\ attempt[c] <= MaxRetriesOf(args[c])
              /\ Len(sent[c]) = attempt[c] + 1
              /\ \A k \in 1..(Len(turns[c]) - 1) : Failed(turns[c][k])
        /\ \A k \in 1..Len(turns[c]) :
              turns[c][k].kind = "ok"
              => k = Len(turns[c]) /\ outcome[c].status = "returned"

C2_Witness ==
    \E c \in Calls :
        /\ outcome[c].status = "returned"
        /\ attempt[c] = 1
        /\ attempt[c] < MaxRetriesOf(args[c])
        /\ Len(sent[c]) = 2

\* C3 (as claimed): when the retries are exhausted, cast throws a
\* TypeCastError whose cause is the failure of the last attempt.
C3_TerminalErrorWraps ==
    \A c \in Calls :
        (/\ pc[c] = "done"
         /\ outcome[c].status = "threw"
         /\ turns[c] # <<>>
         /\ Failed(Last(turns[c])))
        => /\ outcome[c].error.class = "TypeCastError"
           /\ outcome[c].cause = Last(turns[c]).error

\* C4: a provider error at attempt n ends cast at once with that very error:
\* it is the last round-trip, no corrective prompt is built and no call
\* follows it, whatever maxRetries allows.
C4_BackendFailureNotRetried ==
    \A c \in Calls :
        \A k \in 1..Len(turns[c]) :
            turns[c][k].kind = "backend"
            => /\ k = Len(turns[c])
               /\ pc[c] = "done"
               /\ outcome[c].status = "threw"
               /\ outcome[c].error = turns[c][k].error
               /\ outcome[c].cause = NoError
               /\ Len(sent[c]) = k
               /\ attempt[c] = k - 1
               /\ conversation[c] = sent[c][k]

C4_Witness ==
    \E c \in Calls :
        /\ Len(turns[c]) = 2
        /\ Last(turns[c]).kind = "backend"
        /\ attempt[c] < MaxRetriesOf(args[c])
        /\ pc[c] = "done"

\* C5: every prompt sent on a retry (attempt n >= 1) contains the raw response
\* of attempt n - 1, character for character, and the formatted description
\* of the failure of attempt n - 1.
C5_RetryPromptQuotesFailure ==
    \A c \in Calls :
        \A n \in 2..Len(sent[c]) :
            /\ Contains(sent[c][n], turns[c][n - 1].raw)
            /\ Contains(sent[c][n], formatParseError(turns[c][n - 1].error))
            /\ Contains(sent[c][n],
                        <<"\n\n---\nYour previous response:\n">>
                        \o turns[c][n - 1].raw \o <<"\n\n---\nError: ">>
                        \o formatParseError(turns[c][n - 1].error))

C5_Witness ==
    \E c \in Calls :
        /\ Len(sent[c]) = 3
        /\ turns[c][1].kind = "syntax"
        /\ turns[c][2].kind = "validation"

\* C6 (as claimed): cast repairs the raw text before decoding, so a response
\* whose repaired form decodes and validates makes its attempt succeed.
C6_RepairBeforeDecode ==
    \A c \in Calls :
        \A k \in 1..Len(turns[c]) :
            (/\ turns[c][k].kind # "backend"
             /\ AttemptResult(repairJson(turns[c][k].raw)).kind = "ok")
            => turns[c][k].kind = "ok"

\* C7: whenever a provider call is in flight 0 <= attempt <= maxRetries; the
\* counter is the number of earlier round-trips (one step per round-trip); and
\* a call never makes more than maxRetries + 1 provider calls.
C7_AttemptBounds ==
    \A c \in Calls :
        /\ pc[c] = "awaiting"
           => /\ 0 <= attempt[c] /\ attempt[c] <= maxRetries[c]
              /\ attempt[c] = Len(turns[c])
        /\ Started(c) => attempt[c] + 1 = Len(sent[c])
        /\ Started(c) => Len(sent[c]) <= maxRetries[c] + 1

C7_Witness ==
    \E c \in Calls :
        /\ pc[c] = "awaiting"
        /\ attempt[c] = maxRetries[c]
        /\ maxRetries[c] >= 2

\* the failure a terminal error carries: its cause when it wraps one, else itself
Carried(o) == IF o.error.class = "TypeCastError" THEN o.cause ELSE o.error

\* C8: the failure carried by the terminal error is the failure of the last
\* attempt, whatever the earlier attempts failed with: a ZodError with the
\* issue list of the last response, or the SyntaxError of the last response.
C8_TerminalCauseIsLastFailure ==
    \A c \in Calls :
        (/\ pc[c] = "done"
         /\ outcome[c].status = "threw"
         /\ turns[c] # <<>>
         /\ Failed(Last(turns[c])))
        => LET t == Last(turns[c])
               d == JSONParse(t.raw)
           IN  /\ Len(turns[c]) = maxRetries[c] + 1
               /\ Carried(outcome[c]) = t.error
               /\ t.kind = "validation"
                  => /\ Carried(outcome[c]).class = "ZodError"
                     /\ Carried(outcome[c]).issues = schemaParse(d.value).issues
               /\ t.kind = "syntax"
                  => /\ Carried(outcome[c]).class = "SyntaxError"
                     /\ Carried(outcome[c]) = d.error

C8_Witness ==
    \E c \in Calls :
        /\ pc[c] = "done"
        /\ outcome[c].status = "threw"
        /\ Len(turns[c]) >= 2
        /\ turns[c][1].kind = "syntax"
        /\ Last(turns[c]).kind = "validation"
        /\ outcome[c].error.class = "ZodError"

\* C9: cast returns only a value the validator accepted in the same attempt:
\* every response that decodes is handed to schema.parse, a returned value is
\* the validator's output for the last response, and maxRetries stays the
\* caller's value.
C9_SuccessOnlyValidated ==
    \A c \in Calls :
        /\ \A k \in 1..Len(turns[c]) :
              (turns[c][k].kind # "backend" /\ JSONParse(turns[c][k].raw).ok)
              => turns[c][k].validated
        /\ outcome[c].status = "returned"
           => LET d == JSONParse(Last(turns[c]).raw)
              IN  /\ d.ok
                  /\ schemaParse(d.value).ok
                  /\ outcome[c].value = schemaParse(d.value).value
        /\ Started(c) => maxRetries[c] = MaxRetriesOf(args[c])

C9_Witness ==
    \E c \in Calls :
        /\ outcome[c].status = "returned"
        /\ Len(turns[c]) = 3
        /\ turns[c][1].kind = "validation"
        /\ turns[c][2].kind = "validation"

\* cast run alone on the round-trips rest: its position, counter, outcome and
\* the prompts it sends
RECURSIVE RunAlone(_, _, _, _, _)
RunAlone(conv, att, maxR, rest, prompts) ==
    IF ~LoopCondition(att, maxR)
    THEN [pc |-> "done", attempt |-> att, sent |-> prompts,
          outcome |-> [status |-> "threw", value |-> NoResult,
                       error |-> Unreachable, cause |-> NoError]]
    ELSE IF rest = <<>>
    THEN [pc |-> "awaiting", attempt |-> att, sent |-> Append(prompts, conv),
          outcome |-> Pending]
    ELSE IF Head(rest).kind = "backend"
    THEN [pc |-> "done", attempt |-> att, sent |-> Append(prompts, conv),
          outcome |-> [status |-> "threw", value |-> NoResult,
                       error |-> Head(rest).error, cause |-> NoError]]
    ELSE LET r == AttemptResult(Head(rest).raw)
         IN  IF r.kind = "ok"
             THEN [pc |-> "done", attempt |-> att,
                   sent |-> Append(prompts, conv),
                   outcome |-> [status |-> "returned", value |-> r.value,
                                error |-> NoError, cause |-> NoError]]
             ELSE IF ShouldRetry(att, maxR)
             THEN RunAlone(CorrectivePrompt(conv, Head(rest).raw, r.error),
                           NextAttempt(att), maxR, Tail(rest),
                           Append(prompts, conv))
             ELSE [pc |-> "done", attempt |-> att,
                   sent |-> Append(prompts, conv),
                   outcome |-> [status |-> "threw", value |-> NoResult,
                                error |-> r.error, cause |-> NoError]]

\* C10: two cast calls interleaved at their awaits share no conversation
\* state: the prompts, the counter and the outcome of each call are those of
\* the same call run alone on its own prompt and its own responses.
C10_CallsIsolated ==
    \A c \in Calls :
        Started(c)
        => LET alone == RunAlone(args[c].prompt, 0, MaxRetriesOf(args[c]),
                                 turns[c], <<>>)
           IN  /\ sent[c] = alone.sent
               /\ attempt[c] = alone.attempt
               /\ outcome[c] = alone.outcome
               /\ pc[c] = alone.pc
               /\ conversation[c] = Last(sent[c])

C10_Witness ==
    /\ pc[1] = "awaiting" /\ pc[2] = "awaiting"
    /\ Len(sent[1]) = 2 /\ Len(sent[2]) = 2
    /\ turns[1][1].kind = "syntax"
    /\ turns[2][1].kind = "validation"


\* ------------------------------------------------------------------------
\* The functions of src/utils/repair.ts run on their own, statement by
\* statement, on every text up to a bounded length
\* ------------------------------------------------------------------------
MaxChunkLen == 5

\* every string over alphabet of length at most n
Texts(alphabet, n) == UNION {[1..k -> alphabet] : k \in 0..n}

ChunkAlphabet == {"{", "}", "[", "]", QUOTE, "'", BACKSLASH, " "}

ChunkTexts == Texts(ChunkAlphabet, MaxChunkLen)

MaxChatterLen == 2

ChatterAlphabet == {"[", "]", "a", " "}

\* the text an LLM puts before and after the JSON
Chatter == Texts(ChatterAlphabet, MaxChatterLen)

\* {}, {"a":1}, {"a":[1]}, {"a":"}"} and {"a":"\"}"}
JsonObjects ==
    { <<"{", "}">>,
      <<"{", QUOTE, "a", QUOTE, ":", "1", "}">>,
      <<"{", QUOTE, "a", QUOTE, ":", "[", "1", "]", "}">>,
      <<"{", QUOTE, "a", QUOTE, ":", QUOTE, "}", QUOTE, "}">>,
      <<"{", QUOTE, "a", QUOTE, ":", QUOTE, BACKSLASH, QUOTE, "}", QUOTE, "}">> }

\* chatter, a JSON object, chatter
FramedTexts ==
    {prefix \o json \o suffix :
        prefix \in Chatter, json \in JsonObjects, suffix \in Chatter}

\* no cast call is made
NoCast ==
    /\ args = [c \in Calls |->
                  [prompt |-> <<>>, given |-> FALSE, maxRetries |-> 0,
                   active |-> FALSE]]
    /\ InitCalls

\* f(raw) is called
Called(f, raw) ==
    /\ fn = f
    /\ input = raw
    /\ fpc = "entry"
    /\ work = <<>>
    /\ scan = NoScan

\* mutant of ScanFrom: the scan begins after the start bracket
ScanFromAfterStart(trimmed, start, openChar, closeChar) ==
    [trimmed |-> trimmed, start |-> start, openChar |-> openChar,
     closeChar |-> closeChar, depth |-> 0, i |-> start + 1,
     inString |-> FALSE, escape |-> FALSE, quoteChar |-> ""]

\* let depth = 0; let i = start; let inString = false; let escape = false;
\* let quoteChar = ""
ScanFrom(trimmed, start, openChar, closeChar) ==
    [trimmed |-> trimmed, start |-> start, openChar |-> openChar,
     closeChar |-> closeChar, depth |-> 0, i |-> start, inString |-> FALSE,
     escape |-> FALSE, quoteChar |-> ""]

\* mutant of ChooseStart: an array start is preferred to an earlier object start
ChooseStartArrayFirst(trimmed, startObj, startArr) ==
    IF startObj = -1 /\ startArr = -1
    THEN /\ fpc' = "nobracket"
         /\ work' = trimmed
         /\ scan' = [NoScan EXCEPT !.trimmed = trimmed]
    ELSE /\ fpc' = "loop"
         /\ work' = work
         /\ scan' = IF startArr = -1
                    THEN ScanFrom(trimmed, startObj, "{", "}")
                    ELSE ScanFrom(trimmed, startArr, "[", "]")

\* the choice of start, openChar and closeChar, or the return of trimmed
ChooseStart(trimmed, startObj, startArr) ==
    IF startObj = -1 /\ startArr = -1
    THEN /\ fpc' = "nobracket"
         /\ work' = trimmed
         /\ scan' = [NoScan EXCEPT !.trimmed = trimmed]
    ELSE /\ fpc' = "loop"
         /\ work' = work
         /\ scan' = IF startArr = -1 \/ (startObj # -1 /\ startObj < startArr)
                    THEN ScanFrom(trimmed, startObj, "{", "}")
                    ELSE ScanFrom(trimmed, startArr, "[", "]")

FindStart(trimmed) ==
    ChooseStart(trimmed, IndexOf(trimmed, <<"{">>), IndexOf(trimmed, <<"[">>))

\* mutant of ExtractEntry: raw is searched and returned without trim
ExtractEntryNoTrim ==
    /\ fn = "extractJsonChunk"
    /\ fpc = "entry"
    /\ FindStart(input)
    /\ UNCHANGED <<fn, input>>
    /\ UNCHANGED castVars

\* extractJsonChunk(raw) up to its while loop
ExtractEntry ==
    /\ fn = "extractJsonChunk"
    /\ fpc = "entry"
    /\ FindStart(Trim(input))
    /\ UNCHANGED <<fn, input>>
    /\ UNCHANGED castVars

\* mutant of LoopBody: the iteration on an escaped character does not advance
LoopBodyEscapeStays(sc, c) ==
    IF sc.escape
    THEN [sc EXCEPT !.escape = TRUE, !.inString = TRUE]
    ELSE IF c = BACKSLASH /\ sc.inString
    THEN [sc EXCEPT !.escape = TRUE, !.i = @ + 1]
    ELSE IF sc.inString
    THEN [sc EXCEPT !.inString = (c # sc.quoteChar), !.i = @ + 1]
    ELSE IF c = QUOTE \/ c = "'"
    THEN [sc EXCEPT !.inString = TRUE, !.quoteChar = c, !.i = @ + 1]
    ELSE IF c = sc.openChar
    THEN [sc EXCEPT !.depth = @ + 1, !.i = @ + 1]
    ELSE IF c = sc.closeChar
    THEN IF sc.depth - 1 = 0
         THEN [sc EXCEPT !.depth = @ - 1]
         ELSE [sc EXCEPT !.depth = @ - 1, !.i = @ + 1]
    ELSE [sc EXCEPT !.i = @ + 1]

\* mutant of LoopBody: brackets of either type change the depth
LoopBodyAnyBracket(sc, c) ==
    IF sc.escape
    THEN [sc EXCEPT !.escape = FALSE, !.i = @ + 1]
    ELSE IF c = BACKSLASH /\ sc.inString
    THEN [sc EXCEPT !.escape = TRUE, !.i = @ + 1]
    ELSE IF sc.inString
    THEN [sc EXCEPT !.inString = (c # sc.quoteChar), !.i = @ + 1]
    ELSE IF c = QUOTE \/ c = "'"
    THEN [sc EXCEPT !.inString = TRUE, !.quoteChar = c, !.i = @ + 1]
    ELSE IF c \in {"{", "["}
    THEN [sc EXCEPT !.depth = @ + 1, !.i = @ + 1]
    ELSE IF c \in {"}", "]"}
    THEN IF sc.depth - 1 = 0
         THEN [sc EXCEPT !.depth = @ - 1]
         ELSE [sc EXCEPT !.depth = @ - 1, !.i = @ + 1]
    ELSE [sc EXCEPT !.i = @ + 1]

\* mutant of LoopBody: a backslash inside a string does not escape
LoopBodyNoEscape(sc, c) ==
    IF sc.inString
    THEN [sc EXCEPT !.inString = (c # sc.quoteChar), !.i = @ + 1]
    ELSE IF c = QUOTE \/ c = "'"
    THEN [sc EXCEPT !.inString = TRUE, !.quoteChar = c, !.i = @ + 1]
    ELSE IF c = sc.openChar
    THEN [sc EXCEPT !.depth = @ + 1, !.i = @ + 1]
    ELSE IF c = sc.closeChar
    THEN IF sc.depth - 1 = 0
         THEN [sc EXCEPT !.depth = @ - 1]
         ELSE [sc EXCEPT !.depth = @ - 1, !.i = @ + 1]
    ELSE [sc EXCEPT !.i = @ + 1]

\* one iteration of the while loop on character c: the locals after it
LoopBody(sc, c) ==
    IF sc.escape
    THEN [sc EXCEPT !.escape = FALSE, !.i = @ + 1]
    ELSE IF c = BACKSLASH /\ sc.inString
    THEN [sc EXCEPT !.escape = TRUE, !.i = @ + 1]
    ELSE IF sc.inString
    THEN [sc EXCEPT !.inString = (c # sc.quoteChar), !.i = @ + 1]
    ELSE IF c = QUOTE \/ c = "'"
    THEN [sc EXCEPT !.inString = TRUE, !.quoteChar = c, !.i = @ + 1]
    ELSE IF c = sc.openChar
    THEN [sc EXCEPT !.depth = @ + 1, !.i = @ + 1]
    ELSE IF c = sc.closeChar
    THEN IF sc.depth - 1 = 0
         THEN [sc EXCEPT !.depth = @ - 1]
         ELSE [sc EXCEPT !.depth = @ - 1, !.i = @ + 1]
    ELSE [sc EXCEPT !.i = @ + 1]

\* is the return inside the loop taken on character c
Closes(sc, c) ==
    /\ ~sc.escape
    /\ ~sc.inString
    /\ c \notin {QUOTE, "'"}
    /\ c # sc.openChar
    /\ c = sc.closeChar
    /\ sc.depth - 1 = 0

\* the locals after the iteration on c; where it returns, the returned slice
Iterate(sc, c, after) ==
    /\ scan' = after
    /\ IF Closes(sc, c)
       THEN /\ fpc' = "closed"
            /\ work' = Slice(sc.trimmed, sc.start, sc.i + 1)
       ELSE /\ fpc' = fpc
            /\ work' = work

\* one iteration of while (i < trimmed.length)
ScanStep ==
    /\ fn = "extractJsonChunk"
    /\ fpc = "loop"
    /\ scan.i < Len(scan.trimmed)
    /\ Iterate(scan, scan.trimmed[scan.i + 1],
               LoopBody(scan, scan.trimmed[scan.i + 1]))
    /\ UNCHANGED <<fn, input>>
    /\ UNCHANGED castVars

\* mutant of ScanExhausted: the missing closing bracket is added
ScanExhaustedCloses ==
    /\ fn = "extractJsonChunk"
    /\ fpc = "loop"
    /\ ~(scan.i < Len(scan.trimmed))
    /\ fpc' = "exhausted"
    /\ work' = Slice(scan.trimmed, scan.start, Len(scan.trimmed))
                \o <<scan.closeChar>>
    /\ UNCHANGED <<fn, input, scan>>
    /\ UNCHANGED castVars

\* the loop condition fails: return trimmed.slice(start)
ScanExhausted ==
    /\ fn = "extractJsonChunk"
    /\ fpc = "loop"
    /\ ~(scan.i < Len(scan.trimmed))
    /\ fpc' = "exhausted"
    /\ work' = Slice(scan.trimmed, scan.start, Len(scan.trimmed))
    /\ UNCHANGED <<fn, input, scan>>
    /\ UNCHANGED castVars

InitExtract ==
    /\ NoCast
    /\ \E raw \in ChunkTexts \cup FramedTexts : Called("extractJsonChunk", raw)

NextExtract ==
    \/ ExtractEntry
    \/ ScanStep
    \/ ScanExhausted

SpecExtract == InitExtract /\ [][NextExtract]_vars

MaxScanLen == 4

\* a call of extractJsonChunk on any text of up to MaxScanLen characters
InitScan ==
    /\ NoCast
    /\ \E raw \in Texts(ChunkAlphabet, MaxScanLen) :
          Called("extractJsonChunk", raw)

\* a call of extractJsonChunk runs on: nothing but the function itself can
\* hold up its next statement
SpecExtractLive == InitScan /\ [][NextExtract]_vars /\ WF_vars(NextExtract)


\* ------------------------------------------------------------------------
\* Properties of extractJsonChunk
\* ------------------------------------------------------------------------

\* the quote character of the string literal that is open before the
\* character at 0-based index k of t is read, reading from index j with quote
\* q open and esc telling whether the character at j is escaped; "" when no
\* string literal is open
RECURSIVE OpenQuote(_, _, _, _, _)
OpenQuote(t, j, k, q, esc) ==
    IF j >= k THEN q
    ELSE IF esc THEN OpenQuote(t, j + 1, k, q, FALSE)
    ELSE IF q # "" /\ t[j + 1] = BACKSLASH THEN OpenQuote(t, j + 1, k, q, TRUE)
    ELSE IF q # "" THEN OpenQuote(t, j + 1, k, IF t[j + 1] = q THEN "" ELSE q, FALSE)
    ELSE IF t[j + 1] \in {QUOTE, "'"} THEN OpenQuote(t, j + 1, k, t[j + 1], FALSE)
    ELSE OpenQuote(t, j + 1, k, "", FALSE)

\* does the character at 0-based index k lie inside a quoted string that
\* opened at or after index from
InsideString(t, from, k) == OpenQuote(t, from, k, "", FALSE) # ""

\* how many times ch occurs outside quoted strings at indexes from..(upto - 1)
OutsideCount(t, from, upto, ch) ==
    Cardinality({j \in from..(upto - 1) :
                    t[j + 1] = ch /\ ~InsideString(t, from, j)})

\* the index up to which the scan has read
ReadUpTo == IF fpc = "closed" THEN scan.i + 1 ELSE scan.i

\* C11: wherever the scan of extractJsonChunk stands, its depth is the number
\* of opening brackets minus the number of closing brackets that it has read
\* outside quoted strings (single- or double-quoted, a backslash escaping the
\* next character of a string), and when it returns from inside the loop the
\* chunk ends at a closing bracket that lies outside every quoted string.
C11_DepthCountsOnlyOutsideStrings ==
    (fn = "extractJsonChunk" /\ fpc \in {"loop", "closed", "exhausted"}) =>
        /\ scan.depth =
              OutsideCount(scan.trimmed, scan.start, ReadUpTo, scan.openChar)
              - OutsideCount(scan.trimmed, scan.start, ReadUpTo, scan.closeChar)
        /\ fpc = "closed" =>
              /\ scan.trimmed[scan.i + 1] = scan.closeChar
              /\ ~InsideString(scan.trimmed, scan.start, scan.i)
              /\ work = Slice(scan.trimmed, scan.start, scan.i + 1)

\* the scan returned a chunk that holds a closing bracket inside a string
C11_Witness ==
    /\ fn = "extractJsonChunk"
    /\ fpc = "closed"
    /\ \E j \in scan.start..(scan.i - 1) :
          /\ scan.trimmed[j + 1] = scan.closeChar
          /\ InsideString(scan.trimmed, scan.start, j)

\* extractJsonChunk has returned
ExtractReturned ==
    fn = "extractJsonChunk" /\ fpc \in {"nobracket", "closed", "exhausted"}

\* the ways to read t as prefix + JSON object + suffix: the 1-based positions
\* of the first and the last character of the JSON object
Frames(t) ==
    {f \in (1..Len(t)) \X (1..Len(t)) :
        /\ f[1] < f[2]
        /\ t[f[1]] = "{"
        /\ t[f[2]] = "}"
        /\ JSONParse(SubSeq(t, f[1], f[2])).ok}

Opener(closer) == IF closer = "}" THEN "{" ELSE "["

\* the brackets of t from position k on nest properly, given the open ones
RECURSIVE Nests(_, _, _)
Nests(t, k, open) ==
    IF k > Len(t) THEN open = <<>>
    ELSE IF t[k] \in {"{", "["} THEN Nests(t, k + 1, <<t[k]>> \o open)
    ELSE IF t[k] \in {"}", "]"}
    THEN /\ open # <<>>
         /\ Head(open) = Opener(t[k])
         /\ Nests(t, k + 1, Tail(open))
    ELSE Nests(t, k + 1, open)

\* t contains no unbalanced brackets
Balanced(t) == Nests(t, 1, <<>>)

NoOpeningBracket(t) == \A k \in 1..Len(t) : t[k] \notin {"{", "["}

\* C12 as stated: for text that reads as prefix + JSON object + suffix with
\* no unbalanced brackets in prefix and suffix, extractJsonChunk returns
\* exactly the JSON object.
C12_BalancedChatterRemoved ==
    ExtractReturned =>
        \A f \in Frames(input) :
            (/\ Balanced(SubSeq(input, 1, f[1] - 1))
             /\ Balanced(SubSeq(input, f[2] + 1, Len(input))))
                => work = SubSeq(input, f[1], f[2])

\* C12, amended: for text that reads as prefix + JSON object + suffix where
\* the prefix contains no opening bracket at all (the suffix may be any
\* text), extractJsonChunk returns exactly the JSON object.
C12_ChatterWithoutOpeningBracketRemoved ==
    ExtractReturned =>
        \A f \in Frames(input) :
            NoOpeningBracket(SubSeq(input, 1, f[1] - 1))
                => work = SubSeq(input, f[1], f[2])

\* a JSON object was cut out of text that has chatter on both sides
C12_Witness ==
    /\ ExtractReturned
    /\ \E f \in Frames(input) :
          /\ f[1] > 1
          /\ f[2] < Len(input)
          /\ NoOpeningBracket(SubSeq(input, 1, f[1] - 1))
          /\ work = SubSeq(input, f[1], f[2])
          /\ Len(work) < Len(Trim(input))


\* ------------------------------------------------------------------------
\* fixTrailingCommas, one replace call at a time
\* ------------------------------------------------------------------------
MaxCommaLen == 5

CommaAlphabet == {",", " ", "]", "}", "[", QUOTE, "1"}

CommaTexts == Texts(CommaAlphabet, MaxCommaLen)

\* raw.replace(/,(\s*)]/g, "$1]")
FixBrackets ==
    /\ fn = "fixTrailingCommas"
    /\ fpc = "entry"
    /\ work' = ReplaceTrailingComma(input, 1, "]")
    /\ fpc' = "brackets"
    /\ UNCHANGED <<fn, input, scan>>
    /\ UNCHANGED castVars

\* .replace(/,(\s*)}/g, "$1}") and the return
FixBraces ==
    /\ fn = "fixTrailingCommas"
    /\ fpc = "brackets"
    /\ work' = ReplaceTrailingComma(work, 1, "}")
    /\ fpc' = "returned"
    /\ UNCHANGED <<fn, input, scan>>
    /\ UNCHANGED castVars

InitFix ==
    /\ NoCast
    /\ \E raw \in CommaTexts : Called("fixTrailingCommas", raw)

NextFix ==
    \/ FixBrackets
    \/ FixBraces

SpecFix == InitFix /\ [][NextFix]_vars


\* ------------------------------------------------------------------------
\* Properties of fixTrailingCommas
\* ------------------------------------------------------------------------
FixReturned == fn = "fixTrailingCommas" /\ fpc = "returned"

\* is position i of t followed, after optional whitespace, by ] or }
CloserAfter(t, i) ==
    /\ i + 1 + WsRun(t, i + 1) <= Len(t)
    /\ t[i + 1 + WsRun(t, i + 1)] \in {"]", "}"}

\* the positions of the commas of t that are followed, after optional
\* whitespace, by ] or }, inside string literals or not
TrailingCommas(t) == {i \in 1..Len(t) : t[i] = "," /\ CloserAfter(t, i)}

\* C13 as stated: on valid JSON text (which has no trailing comma in its
\* structure) fixTrailingCommas returns its input unchanged.
C13_IdentityOnValidJson ==
    (FixReturned /\ JSONParse(input).ok) => work = input

\* C13, amended: on valid JSON text in which no comma, not even one inside a
\* string literal, is followed by optional whitespace and ] or },
\* fixTrailingCommas returns its input unchanged.
C13_IdentityWithoutCommaBeforeCloser ==
    (FixReturned /\ JSONParse(input).ok /\ TrailingCommas(input) = {})
        => work = input

\* valid JSON that holds a comma went through both replace calls
C13_Witness ==
    /\ FixReturned
    /\ JSONParse(input).ok
    /\ TrailingCommas(input) = {}
    /\ \E i \in 1..Len(input) : input[i] = ","
    /\ work = input


\* ------------------------------------------------------------------------
\* stripMarkdownCodeBlocks: the opening fence, then the closing fence
\* ------------------------------------------------------------------------
MaxContentLen == 5

FenceAlphabet == {BACKTICK, NL, " ", "a"}

\* the language tags that CODE_FENCE accepts, and no tag
FenceTags ==
    { <<>>, <<"j", "s", "o", "n">>, <<"J", "S", "O", "N">>,
      <<"J", "s", "o", "N">> }

\* opening fence, tag, newline, content, newline, closing fence
FencedTexts ==
    {FENCE \o tag \o <<NL>> \o content \o <<NL>> \o FENCE :
        tag \in FenceTags, content \in Texts(FenceAlphabet, MaxContentLen)}

\* opening fence, tag, then any text: the fence may never be closed
OpenedTexts ==
    {FENCE \o tag \o rest :
        tag \in FenceTags, rest \in Texts(FenceAlphabet, MaxContentLen)}

StripTexts ==
    FencedTexts \cup OpenedTexts \cup Texts(FenceAlphabet, MaxContentLen)

\* mutant of AfterOpenMatch: text without opening fence is cut at a later fence
AfterOpenMatchCutsAtFence(s0, openMatch) ==
    IF openMatch = -1
    THEN /\ work' = Trim(IF IndexOf(s0, FENCE) # -1
                         THEN Slice(s0, 0, IndexOf(s0, FENCE))
                         ELSE s0)
         /\ fpc' = "returned"
    ELSE /\ work' = Slice(s0, openMatch, Len(s0))
         /\ fpc' = "opened"

\* if (openMatch) s = s.slice(openMatch[0].length), else return s.trim()
AfterOpenMatch(s0, openMatch) ==
    IF openMatch = -1
    THEN /\ work' = Trim(s0)
         /\ fpc' = "returned"
    ELSE /\ work' = Slice(s0, openMatch, Len(s0))
         /\ fpc' = "opened"

\* let s = raw.trim(); const openMatch = s.match(CODE_FENCE)
StripOpen ==
    /\ fn = "stripMarkdownCodeBlocks"
    /\ fpc = "entry"
    /\ AfterOpenMatch(Trim(input), CODE_FENCE(Trim(input)))
    /\ UNCHANGED <<fn, input, scan>>
    /\ UNCHANGED castVars

\* mutant of AfterClosingMatch: always cut at the first fence marker
AfterClosingMatchFirstFence(s1, closing, endIdx) ==
    IF endIdx # -1 THEN Slice(s1, 0, endIdx) ELSE s1

\* the cut at the closing fence, or at the first fence marker, or no cut
AfterClosingMatch(s1, closing, endIdx) ==
    IF closing # -1 THEN Slice(s1, 0, Len(s1) - closing)
    ELSE IF endIdx # -1 THEN Slice(s1, 0, endIdx)
    ELSE s1

\* const closing = s.match(/\nFENCE\s*$/) ... return s.trim()
StripClose ==
    /\ fn = "stripMarkdownCodeBlocks"
    /\ fpc = "opened"
    /\ work' = Trim(AfterClosingMatch(work, ClosingFence(work),
                                      IndexOf(work, FENCE)))
    /\ fpc' = "returned"
    /\ UNCHANGED <<fn, input, scan>>
    /\ UNCHANGED castVars

InitStrip ==
    /\ NoCast
    /\ \E raw \in StripTexts : Called("stripMarkdownCodeBlocks", raw)

NextStrip ==
    \/ StripOpen
    \/ StripClose

SpecStrip == InitStrip /\ [][NextStrip]_vars

\* ------------------------------------------------------------------------
\* Properties of stripMarkdownCodeBlocks
\* ------------------------------------------------------------------------
StripReturned == fn = "stripMarkdownCodeBlocks" /\ fpc = "returned"

\* t is an opening fence with this tag, a newline, some content, a newline
\* and a closing fence
IsFenced(t, tag) ==
    /\ Len(t) >= Len(tag) + 8
    /\ MatchAt(t, 1, FENCE \o tag \o <<NL>>)
    /\ MatchAt(t, Len(t) - 3, <<NL>> \o FENCE)

\* the content between the two newlines of a fenced text
FencedContent(t, tag) == SubSeq(t, Len(tag) + 5, Len(t) - 4)

\* C14: text that is an opening fence with no tag or with a json tag in any
\* letter case, a newline, any content X, a newline and a closing fence is
\* mapped by stripMarkdownCodeBlocks to exactly X trimmed.
C14_FencedContentTrimmed ==
    StripReturned =>
        \A tag \in FenceTags :
            IsFenced(input, tag) => work = Trim(FencedContent(input, tag))

\* a fence with an upper-case tag was stripped from content that has
\* whitespace of its own around it
C14_Witness ==
    /\ StripReturned
    /\ \E tag \in FenceTags :
          /\ tag # <<>>
          /\ tag # <<"j", "s", "o", "n">>
          /\ IsFenced(input, tag)
          /\ Trim(FencedContent(input, tag)) # <<>>
          /\ Trim(FencedContent(input, tag)) # FencedContent(input, tag)
          /\ work = Trim(FencedContent(input, tag))


\* ------------------------------------------------------------------------
\* repairJson, one statement at a time
\* ------------------------------------------------------------------------

\* a fenced answer with chatter around an array that has a trailing comma:
\* FENCE json NL a [1, ] a NL FENCE
FencedChatterComma ==
    FENCE \o <<"j", "s", "o", "n", NL, "a", " ", "[", "1", ",", " ", "]",
               " ", "a", NL>> \o FENCE

RepairTexts ==
    Responses \cup {FencedChatterComma} \cup FencedTexts \cup CommaTexts

\* let s = stripMarkdownCodeBlocks(raw)
RepairStrip ==
    /\ fn = "repairJson"
    /\ fpc = "entry"
    /\ work' = stripMarkdownCodeBlocks(input)
    /\ fpc' = "stripped"
    /\ UNCHANGED <<fn, input, scan>>
    /\ UNCHANGED castVars

\* s = extractJsonChunk(s)
RepairExtract ==
    /\ fn = "repairJson"
    /\ fpc = "stripped"
    /\ work' = extractJsonChunk(work)
    /\ fpc' = "extracted"
    /\ UNCHANGED <<fn, input, scan>>
    /\ UNCHANGED castVars

\* mutant of RepairFix: the trailing-comma fix is left out
RepairFixSkipped ==
    /\ fn = "repairJson"
    /\ fpc = "extracted"
    /\ work' = work
    /\ fpc' = "fixed"
    /\ UNCHANGED <<fn, input, scan>>
    /\ UNCHANGED castVars

\* s = fixTrailingCommas(s)
RepairFix ==
    /\ fn = "repairJson"
    /\ fpc = "extracted"
    /\ work' = fixTrailingCommas(work)
    /\ fpc' = "fixed"
    /\ UNCHANGED <<fn, input, scan>>
    /\ UNCHANGED castVars

\* return s.trim()
RepairTrim ==
    /\ fn = "repairJson"
    /\ fpc = "fixed"
    /\ work' = Trim(work)
    /\ fpc' = "returned"
    /\ UNCHANGED <<fn, input, scan>>
    /\ UNCHANGED castVars

InitRepair ==
    /\ NoCast
    /\ \E raw \in RepairTexts : Called("repairJson", raw)

NextRepair ==
    \/ RepairStrip
    \/ RepairExtract
    \/ RepairFix
    \/ RepairTrim

SpecRepair == InitRepair /\ [][NextRepair]_vars

\* C15: repairJson applies stripMarkdownCodeBlocks, then extractJsonChunk,
\* then fixTrailingCommas, each once and in that order, then trims: after
\* each statement its string is that prefix of the composition applied to the
\* input, and it returns trim(fixTrailingCommas(extractJsonChunk(
\* stripMarkdownCodeBlocks(text)))).
C15_RepairIsComposition ==
    fn = "repairJson" =>
        /\ fpc = "stripped" => work = stripMarkdownCodeBlocks(input)
        /\ fpc = "extracted" =>
              work = extractJsonChunk(stripMarkdownCodeBlocks(input))
        /\ fpc = "fixed" =>
              work = fixTrailingCommas(
                         extractJsonChunk(stripMarkdownCodeBlocks(input)))
        /\ fpc = "returned" =>
              work = Trim(fixTrailingCommas(
                         extractJsonChunk(stripMarkdownCodeBlocks(input))))

\* repairJson returned on a text that each of the three transforms changes
C15_Witness ==
    /\ fn = "repairJson"
    /\ fpc = "returned"
    /\ stripMarkdownCodeBlocks(input) # input
    /\ extractJsonChunk(stripMarkdownCodeBlocks(input))
          # stripMarkdownCodeBlocks(input)
    /\ work # extractJsonChunk(stripMarkdownCodeBlocks(input))


\* ------------------------------------------------------------------------
\* Properties of the conversation of cast
\* ------------------------------------------------------------------------

\* how many corrective blocks p holds: each starts with the same fixed text
BlockCount(p) ==
    Cardinality({k \in 1..Len(p) : p[k] = "\n\n---\nYour previous response:\n"})

\* what the prompt p adds to the prompt q sent before it
Added(p, q) == SubSeq(p, Len(q) + 1, Len(p))

\* C16: within one cast call the first prompt sent is the caller's prompt, and
\* every later prompt is the prompt sent before it followed by one corrective
\* block for the attempt that just failed, so each earlier prompt is a strict
\* prefix of each later one and the prompt of attempt n holds exactly n
\* corrective blocks in attempt order.
C16_ConversationAppendOnly ==
    \A c \in Calls :
        /\ sent[c] # <<>> => sent[c][1] = args[c].prompt
        /\ pc[c] = "awaiting" => conversation[c] = Last(sent[c])
        /\ \A n \in 2..Len(sent[c]) :
              /\ Len(sent[c][n]) > Len(sent[c][n - 1])
              /\ SubSeq(sent[c][n], 1, Len(sent[c][n - 1])) = sent[c][n - 1]
              /\ BlockCount(Added(sent[c][n], sent[c][n - 1])) = 1
              /\ MatchAt(Added(sent[c][n], sent[c][n - 1]), 1,
                         <<"\n\n---\nYour previous response:\n">>
                         \o turns[c][n - 1].raw)
              /\ BlockCount(sent[c][n]) = n - 1

\* a call that has sent a prompt holding two corrective blocks
C16_Witness ==
    \E c \in Calls :
        /\ Len(sent[c]) >= 3
        /\ BlockCount(sent[c][3]) = 2
        /\ turns[c][1].raw # turns[c][2].raw


\* added is a corrective block that quotes raw and describes its failure as
\* descr, no more and no less
Describes(added, raw, descr) ==
    added = <<"\n\n---\nYour previous response:\n">> \o raw
            \o <<"\n\n---\nError: ">> \o descr
            \o <<"\n\nFix the JSON according to the schema and return only the corrected JSON.">>

\* the description due for a response that decodes to d: of the decode
\* failure, or of the validation failure of the decoded value
DueDescription(d) ==
    IF ~d.ok
    THEN <<"Invalid JSON: ">> \o d.error.message
    ELSE <<"Zod validation failed:\n">>
         \o StringifyIssues(schemaParse(d.value).issues)

\* the opening of the description that is not due
WrongOpening(d) ==
    IF ~d.ok THEN "Zod validation failed:\n" ELSE "Invalid JSON: "

\* C17: the corrective block added after a failed attempt describes the
\* failure by its kind: "Invalid JSON: " and the decoder's message when the
\* response did not decode, "Zod validation failed:" and the issue list when
\* it decoded but did not validate, and never the other kind's description.
C17_DescriptionMatchesKind ==
    \A c \in Calls :
        \A n \in 2..Len(sent[c]) :
            /\ Describes(Added(sent[c][n], sent[c][n - 1]), turns[c][n - 1].raw,
                         DueDescription(JSONParse(turns[c][n - 1].raw)))
            /\ \A k \in 1..Len(sent[c][n]) :
                  sent[c][n][k] = WrongOpening(JSONParse(turns[c][n - 1].raw))
                      => k <= Len(sent[c][n - 1])
            /\ JSONParse(turns[c][n - 1].raw).ok
                  => ~schemaParse(JSONParse(turns[c][n - 1].raw).value).ok

\* a call retried after a validation failure and then after a decode failure
C17_Witness ==
    \E c \in Calls :
        /\ Len(sent[c]) >= 3
        /\ turns[c][1].kind = "validation"
        /\ turns[c][2].kind = "syntax"


\* the promise of cast has settled: a value, or a thrown error
Settled(c) == pc[c] = "done" /\ outcome[c].status \in {"returned", "threw"}

\* C18: provided every backend call it issues eventually returns or fails, a
\* cast call with any maxRetries >= 0 that has not settled eventually
\* settles, by returning a value or by throwing; it does not stay in an
\* attempt or between attempts forever.
C18_CastTerminates ==
    \A c \in Calls : (args[c].active /\ ~Settled(c)) ~> Settled(c)

\* a call without a maxRetries option has settled after using all its retries
C18_Witness ==
    \E c \in Calls :
        /\ Settled(c)
        /\ ~args[c].given
        /\ Len(turns[c]) = DefaultMaxRetries + 1


\* ------------------------------------------------------------------------
\* What fixTrailingCommas removes
\* ------------------------------------------------------------------------

\* t from position k on, without the characters at the positions in drop
RECURSIVE Without(_, _, _)
Without(t, drop, k) ==
    IF k > Len(t) THEN <<>>
    ELSE IF k \in drop THEN Without(t, drop, k + 1)
    ELSE <<t[k]>> \o Without(t, drop, k + 1)

\* the positions of the whitespace that immediately follows a trailing comma
SpaceAfterTrailingCommas(t) ==
    {j \in 1..Len(t) :
        \E i \in TrailingCommas(t) : i < j /\ j <= i + WsRun(t, i + 1)}

\* C19 as stated: fixTrailingCommas removes every comma that is followed by
\* optional whitespace and ] or }, together with the whitespace that follows
\* the comma.
C19_CommaAndSpaceRemoved ==
    FixReturned =>
        work = Without(input,
                       TrailingCommas(input) \cup SpaceAfterTrailingCommas(input),
                       1)

\* C19, amended: fixTrailingCommas removes every comma that is followed by
\* optional whitespace and ] or }, and nothing else: the whitespace between
\* the comma and the bracket stays where it was.
C19_OnlyCommaRemoved ==
    FixReturned =>
        /\ work = Without(input, TrailingCommas(input), 1)
        /\ Len(work) = Len(input) - Cardinality(TrailingCommas(input))

\* a comma with whitespace between it and the bracket was removed
C19_Witness ==
    /\ FixReturned
    /\ \E i \in TrailingCommas(input) : WsRun(input, i + 1) >= 1
    /\ work # input
    /\ \E k \in 1..Len(work) : work[k] \in WhiteSpace


\* is the comma at position i of t followed, after optional whitespace, by
\* a trailing comma
BeforeTrailingComma(t, i) ==
    /\ t[i] = ","
    /\ i + 1 + WsRun(t, i + 1) \in TrailingCommas(t)

\* C20 as stated: for every input the output of fixTrailingCommas holds no
\* comma that is followed, after optional whitespace, by ] or }, and a second
\* application changes nothing.
C20_NoTrailingCommaLeft ==
    FixReturned =>
        /\ TrailingCommas(work) = {}
        /\ fixTrailingCommas(work) = work

\* C20, amended: for every input in which no comma is followed, after
\* optional whitespace, by another comma that itself stands before optional
\* whitespace and ] or }, the output of fixTrailingCommas holds no comma that
\* is followed, after optional whitespace, by ] or }, and a second
\* application changes nothing.
C20_NoTrailingCommaLeftUnlessDoubled ==
    (/\ FixReturned
     /\ \A i \in 1..Len(input) : ~BeforeTrailingComma(input, i))
        => /\ TrailingCommas(work) = {}
           /\ fixTrailingCommas(work) = work

\* trailing commas before a ] and before a } were removed from one text
C20_Witness ==
    /\ FixReturned
    /\ \A i \in 1..Len(input) : ~BeforeTrailingComma(input, i)
    /\ \E i \in TrailingCommas(input), j \in TrailingCommas(input) :
          /\ input[i + 1 + WsRun(input, i + 1)] = "]"
          /\ input[j + 1 + WsRun(input, j + 1)] = "}"
    /\ TrailingCommas(work) = {}


\* ------------------------------------------------------------------------
\* More properties of extractJsonChunk
\* ------------------------------------------------------------------------

\* the 1-based position of the first { or [ of t, or 0 when t has neither
FirstBracket(t) ==
    IF \A k \in 1..Len(t) : t[k] \notin {"{", "["} THEN 0
    ELSE CHOOSE k \in 1..Len(t) :
             /\ t[k] \in {"{", "["}
             /\ \A j \in 1..(k - 1) : t[j] \notin {"{", "["}

\* C21: when the scan of extractJsonChunk reaches the end of the text and
\* the depth has not returned to zero, the function returns the trimmed text
\* from its first opening bracket to its end, with nothing changed and no
\* closing character added.
C21_RemainderReturnedUnchanged ==
    (fn = "extractJsonChunk" /\ fpc = "exhausted") =>
        /\ scan.depth # 0
        /\ scan.i = Len(scan.trimmed)
        /\ work = SubSeq(Trim(input), FirstBracket(Trim(input)),
                         Len(Trim(input)))

\* the scan ran out inside a string that swallowed the closing bracket
C21_Witness ==
    /\ fn = "extractJsonChunk"
    /\ fpc = "exhausted"
    /\ scan.inString
    /\ Len(work) >= 3
    /\ work[Len(work)] = scan.closeChar


\* the closing bracket that matches an opening one
Closer(opener) == IF opener = "{" THEN "}" ELSE "]"

\* the scan has chosen its start
Scanning == fn = "extractJsonChunk" /\ fpc \in {"loop", "closed", "exhausted"}

\* the start is the first opening bracket of the trimmed text, of either
\* type, and the brackets counted are that one and its closer
StartsAtEarlierBracket ==
    Scanning =>
        /\ scan.trimmed = Trim(input)
        /\ scan.start + 1 = FirstBracket(scan.trimmed)
        /\ scan.openChar = scan.trimmed[scan.start + 1]
        /\ scan.closeChar = Closer(scan.openChar)

\* an iteration on a bracket of the type that was not chosen keeps the depth
OtherBracketsKeepDepth ==
    (/\ fn = "extractJsonChunk"
     /\ fpc = "loop"
     /\ scan.i < Len(scan.trimmed)
     /\ scan.trimmed[scan.i + 1] \in {"{", "}", "[", "]"}
     /\ scan.trimmed[scan.i + 1] \notin {scan.openChar, scan.closeChar})
        => scan'.depth = scan.depth

\* C22: extractJsonChunk starts at whichever of the first { and the first [
\* comes earlier in the trimmed text (or at the only one there is), counts
\* depth for that bracket type and its closer, and no iteration on a bracket
\* of the other type changes the depth.
C22_EarlierBracketTypeOnly ==
    []StartsAtEarlierBracket /\ [][OtherBracketsKeepDepth]_vars

\* a chunk was returned that holds a bracket of the other type outside any
\* string, from a text that has both opening brackets
C22_Witness ==
    /\ fn = "extractJsonChunk"
    /\ fpc = "closed"
    /\ \E k \in 1..Len(scan.trimmed) :
          scan.trimmed[k] \in {"{", "["} /\ scan.trimmed[k] # scan.openChar
    /\ \E j \in (scan.start + 1)..(scan.i - 1) :
          /\ scan.trimmed[j + 1] \in {"{", "}", "[", "]"}
          /\ scan.trimmed[j + 1] \notin {scan.openChar, scan.closeChar}
          /\ ~InsideString(scan.trimmed, scan.start, j)


\* C23: when the input holds neither { nor [, extractJsonChunk returns the
\* whole input trimmed and changes nothing else, valid JSON or not; it takes
\* that return only for such input.
C23_NoBracketReturnsTrimmed ==
    ExtractReturned =>
        /\ FirstBracket(input) = 0 => (fpc = "nobracket" /\ work = Trim(input))
        /\ fpc = "nobracket" => FirstBracket(input) = 0

\* text without opening bracket that is not valid JSON came back trimmed
C23_Witness ==
    /\ fn = "extractJsonChunk"
    /\ fpc = "nobracket"
    /\ work # input
    /\ Len(work) >= 2
    /\ ~JSONParse(work).ok
    /\ \E k \in 1..Len(work) : work[k] \in {"}", "]"}


\* ------------------------------------------------------------------------
\* More properties of stripMarkdownCodeBlocks
\* ------------------------------------------------------------------------

\* C24: when the trimmed input does not begin with a fence marker,
\* stripMarkdownCodeBlocks returns the trimmed input unchanged, also when
\* fence markers occur later in it.
C24_UnfencedUnchanged ==
    (StripReturned /\ ~MatchAt(Trim(input), 1, FENCE)) => work = Trim(input)

\* a text that holds a fence marker, but not at its start, came back whole
C24_Witness ==
    /\ StripReturned
    /\ ~MatchAt(Trim(input), 1, FENCE)
    /\ Contains(input, FENCE)
    /\ Contains(work, FENCE)
    /\ work # input


\* the positions where a fence marker sits alone at the end of t: on a new
\* line and followed only by whitespace
EndFences(t) ==
    {p \in 1..Len(t) :
        /\ MatchAt(t, p, <<NL>> \o FENCE)
        /\ \A k \in (p + 4)..Len(t) : t[k] \in WhiteSpace}

\* the positions of the fence markers of t
FenceMarkers(t) == {p \in 1..Len(t) : MatchAt(t, p, FENCE)}

\* t before position p, trimmed
TrimmedBefore(t, p) == Trim(SubSeq(t, 1, p - 1))

\* the statements after the removal of the opening fence turn the content
\* after it into the returned string in one of three ways
ClosingFencePreferred ==
    (fn = "stripMarkdownCodeBlocks" /\ fpc = "opened") =>
        /\ fpc' = "returned"
        /\ EndFences(work) # {}
              => \A p \in EndFences(work) : work' = TrimmedBefore(work, p)
        /\ (EndFences(work) = {} /\ FenceMarkers(work) # {})
              => \E p \in FenceMarkers(work) :
                    /\ \A q \in FenceMarkers(work) : p <= q
                    /\ work' = TrimmedBefore(work, p)
        /\ FenceMarkers(work) = {} => work' = Trim(work)

\* C25: after the opening fence is removed, stripMarkdownCodeBlocks removes
\* a closing fence that sits alone at the end of the text (on a new line,
\* followed only by whitespace) with everything after it, keeping fence
\* markers before it; only when there is no such fence does it cut at the
\* first fence marker; with no fence marker at all it keeps the content
\* whole; the result is trimmed.
C25_ClosingFencePreferred == [][ClosingFencePreferred]_vars

\* a closing fence at the end was removed and a fence marker before it kept
C25_Witness ==
    /\ StripReturned
    /\ MatchAt(Trim(input), 1, FENCE)
    /\ Contains(work, FENCE)
    /\ Len(work) > 3


\* every iteration of the scan reads a character of the text and either
\* moves the index on by exactly one or returns
IterationAdvances ==
    (fn = "extractJsonChunk" /\ fpc = "loop") =>
        \/ /\ fpc' = "loop"
           /\ scan.i < Len(scan.trimmed)
           /\ scan'.i = scan.i + 1
           /\ scan'.i <= Len(scan.trimmed)
        \/ /\ fpc' = "closed"
           /\ scan.i < Len(scan.trimmed)
           /\ scan'.i = scan.i
        \/ /\ fpc' = "exhausted"
           /\ scan.i = Len(scan.trimmed)

\* C26: extractJsonChunk is total and terminates on arbitrary text: every
\* iteration of its scan, whatever branch it takes, moves the index on by
\* exactly one character unless it returns, the index never passes the
\* length of the trimmed text, and every call returns.
C26_ScanTerminates ==
    /\ [][IterationAdvances]_vars
    /\ (fn = "extractJsonChunk" /\ fpc = "entry") ~> ExtractReturned

\* the scan read a whole text of the greatest length, through an escape,
\* brackets and a string, and returned
C26_Witness ==
    /\ fn = "extractJsonChunk"
    /\ fpc = "exhausted"
    /\ scan.start = 0
    /\ scan.i = MaxScanLen
    /\ scan.escape
    /\ scan.depth >= 2


\* ------------------------------------------------------------------------
\* The end of the attempt loop of cast
\* ------------------------------------------------------------------------

\* C27: for every maxRetries >= 0 and whatever the backend answers, cast
\* never throws the Unreachable error that follows its loop: a call that is
\* waiting was issued with attempt <= maxRetries, and a finished call either
\* returned or threw the backend's error or the failure of the attempt
\* numbered maxRetries.
C27_UnreachableNeverThrown ==
    \A c \in Calls :
        /\ outcome[c].error # Unreachable
        /\ outcome[c].error.message # <<"Unreachable">>
        /\ pc[c] = "awaiting" => LoopCondition(attempt[c], maxRetries[c])
        /\ (pc[c] = "done" /\ outcome[c].status = "threw")
              => \/ Last(turns[c]).kind = "backend"
                 \/ /\ attempt[c] = maxRetries[c]
                    /\ outcome[c].error = Last(turns[c]).error

\* a call with maxRetries 0 ended in the only iteration of its loop, by
\* throwing that iteration's failure
C27_Witness ==
    \E c \in Calls :
        /\ pc[c] = "done"
        /\ args[c].given
        /\ maxRetries[c] = 0
        /\ outcome[c].status = "threw"
        /\ outcome[c].error.class \in {"SyntaxError", "ZodError"}


\* ------------------------------------------------------------------------
\* The depth counter of extractJsonChunk
\* ------------------------------------------------------------------------

\* the chosen brackets opened minus closed outside strings at 0-based
\* indexes from..(upto - 1) of t
NestingBefore(t, from, upto, opener) ==
    OutsideCount(t, from, upto, opener)
    - OutsideCount(t, from, upto, Closer(opener))

\* C28: the scan of extractJsonChunk starts on the chosen opening bracket
\* with depth 0 and outside string mode; from the step after that bracket
\* until the function returns the depth is at least 1, never negative; and
\* the return inside the loop comes at the first character at which the
\* depth is back to zero.
C28_DepthAtLeastOne ==
    Scanning =>
        /\ scan.depth >= 0
        /\ (fpc = "loop" /\ scan.i = scan.start)
              => /\ scan.depth = 0
                 /\ ~scan.inString
                 /\ ~scan.escape
                 /\ scan.trimmed[scan.start + 1] = scan.openChar
        /\ (fpc = "loop" /\ scan.i > scan.start) => scan.depth >= 1
        /\ fpc = "exhausted" => scan.depth >= 1
        /\ fpc = "closed"
              => /\ scan.depth = 0
                 /\ \A k \in (scan.start + 1)..scan.i :
                       NestingBefore(scan.trimmed, scan.start, k,
                                     scan.openChar) >= 1

\* the scan returned a chunk with brackets nested inside it
C28_Witness ==
    /\ fn = "extractJsonChunk"
    /\ fpc = "closed"
    /\ \E k \in (scan.start + 1)..scan.i :
          NestingBefore(scan.trimmed, scan.start, k, scan.openChar) >= 2
    /\ scan.i + 1 < Len(scan.trimmed)

====
